---------------------------- MODULE Spec2Model ----------------------------
(***************************************************************************)
(* The import/export lint rule of oxc_linter                               *)
(* (crates/oxc_linter/src/rules/import/export.rs).                         *)
(*                                                                         *)
(* Export::run_once reports every local named export of the linted module  *)
(* that is also exported by a module reached through `export * from ...`   *)
(* entries.  collect_exported_recursive walks the star-export graph.       *)
(*                                                                         *)
(* The state is the module graph (one ModuleRecord per module, read-only)  *)
(* and the locals of one run_once invocation: the loop index over the      *)
(* star export entries, the call stack of collect_exported_recursive, the  *)
(* name set it fills, the span-keyed map of duplicates and the diagnostics *)
(* handed to ctx.diagnostic.                                               *)
(***************************************************************************)
EXTENDS Integers, Sequences, FiniteSets

(***************************************************************************)
(* Bounds of the model and the sets they span.                             *)
(***************************************************************************)
\* number of module records in the graph
NumModules == 3

\* total number of star export entries over all module records of the graph
MaxStarExports == 2

Modules == 1..NumModules

\* the module record of the linted file: ctx.semantic().module_record()
Root == 1

\* export names (Atom), in the order of their declarations in a file
ExportNames == <<"foo", "bar">>

Names == {ExportNames[k] : k \in 1..Len(ExportNames)}

\* specifier strings of module requests; SpecifierNames[d + 1] names, in
\* module m, the module d places after m (a relative path: the same string
\* names different modules in different records)
SpecifierNames == <<"./self", "./a", "./b", "./c", "./d">>

\* a specifier that no loaded_modules map holds (the module failed to load)
NotLoaded == "./missing"

\* the number of frames the stack holds.  The frames of a traversal that
\* meets no cycle hold pairwise different modules, so at most NumModules of
\* them; one frame more and two frames hold the same module, which then
\* re-exports itself through the frames between them, and the recursion of
\* the code repeats from there without end.
StackLimit == NumModules

(***************************************************************************)
(* The module graph: ModuleRecord values as the rule reads them.           *)
(***************************************************************************)
Offsets == 0..(NumModules - 1)

Specifiers == {SpecifierNames[d + 1] : d \in Offsets}

\* the module that specifier s names in the loaded_modules of module m
Target(m, s) ==
    LET d == CHOOSE x \in Offsets : SpecifierNames[x + 1] = s
    IN  ((m - 1 + d) % NumModules) + 1

\* Option<ModuleRequest> of a star export entry: <<>> is None, <<s>> is Some
Requests == {<<>>} \cup {<<s>> : s \in Specifiers \cup {NotLoaded}}

\* Span of the exported identifier `name` in module m: every exported name
\* of a module has a span of its own
SpanOf(m, name) ==
    10 * m + (CHOOSE k \in 1..Len(ExportNames) : ExportNames[k] = name)

\* the specifiers a sequence of star export entries requests
Requested(entries) ==
    {entries[k].module_request[1] :
        k \in {j \in 1..Len(entries) : entries[j].module_request # <<>>}}

\* the record of module m that exports `names` and holds `entries`; every
\* requested specifier but NotLoaded is a key of loaded_modules
ModuleRecord(m, names, entries) ==
    [ exported_bindings   |-> [n \in names |-> SpanOf(m, n)],
      star_export_entries |-> entries,
      loaded_modules      |->
          [s \in Requested(entries) \cap Specifiers |-> Target(m, s)] ]

\* the star export entries of a graph, listed module by module: each is the
\* module that holds it and its Option<ModuleRequest>
Placements(k) == [1..k -> Modules \X Requests]

ByModule(placed) ==
    \A k \in 1..(Len(placed) - 1) : placed[k][1] <= placed[k + 1][1]

\* the star_export_entries of module m, in source order
EntriesOf(placed, m) ==
    LET own(p) == p[1] = m
        mine   == SelectSeq(placed, own)
    IN  [k \in 1..Len(mine) |-> [module_request |-> mine[k][2]]]

\* the graph whose modules export `exported` and hold the entries `placed`
Graph(exported, placed) ==
    [m \in Modules |-> ModuleRecord(m, exported[m], EntriesOf(placed, m))]

\* the modules that the records of `from` load through star export entries
LoadedBy(g, from) ==
    UNION {{g[m].loaded_modules[s] : s \in DOMAIN g[m].loaded_modules} :
              m \in from}

\* the modules loaded, directly or through other records, starting at `from`
RECURSIVE LoadedFrom(_, _)
LoadedFrom(g, from) ==
    LET more == from \cup LoadedBy(g, from)
    IN  IF more = from THEN from ELSE LoadedFrom(g, more)

NoExports == [m \in Modules |-> {}]

(***************************************************************************)
(* State.                                                                  *)
(***************************************************************************)
VARIABLES
    graph,                   \* module id -> ModuleRecord
    pc,                      \* position of run_once
    entry,                   \* index of run_once's loop over star_export_entries
    all_export_names,        \* FxHashSet<Atom> filled by the collector
    stack,                   \* frames of collect_exported_recursive
    duplicated_named_export, \* FxHashMap<Span, Atom>
    diagnostics,             \* what ctx.diagnostic received, in order
    calls                    \* per module: calls of the collector in this traversal

vars == <<graph, pc, entry, all_export_names, stack,
          duplicated_named_export, diagnostics, calls>>

locals == <<entry, all_export_names, stack, duplicated_named_export,
            diagnostics, calls>>

EmptyMap == [s \in {} |-> "foo"]

NoCalls == [m \in Modules |-> 0]

\* the records that loading the linted file brought in, with at most
\* `budget` star export entries; a module id that nothing loaded stands for
\* no record and stays empty
InitGraph(budget) ==
    \E k \in 0..budget : \E placed \in Placements(k) :
        /\ ByModule(placed)
        /\ LET loaded == LoadedFrom(Graph(NoExports, placed), {Root})
           IN  /\ \A j \in 1..k : placed[j][1] \in loaded
               /\ \E exported \in [loaded -> SUBSET Names] :
                      graph = Graph([m \in Modules |->
                                       IF m \in loaded THEN exported[m] ELSE {}],
                                    placed)

InitLocals ==
    /\ pc = "start"
    /\ entry = 1
    /\ all_export_names = {}
    /\ stack = <<>>
    /\ duplicated_named_export = EmptyMap
    /\ diagnostics = <<>>
    /\ calls = NoCalls

Init ==
    /\ InitGraph(MaxStarExports)
    /\ InitLocals

(***************************************************************************)
(* Helpers shared by run_once and collect_exported_recursive.              *)
(***************************************************************************)
\* module_record.star_export_entries
StarExports(m) == graph[m].star_export_entries

\* `let Some(module_request) = &export_entry.module_request else continue`
HasRequest(m, k) == StarExports(m)[k].module_request # <<>>

RequestName(m, k) == StarExports(m)[k].module_request[1]

\* `module_record.loaded_modules.get(module_request.name())` is Some
IsLoaded(m, k) == RequestName(m, k) \in DOMAIN graph[m].loaded_modules

\* Remote with the lookup made in the linted module's loaded_modules
\* whenever that map holds the specifier
Remote_InRootMap(m, k) ==
    IF RequestName(m, k) \in DOMAIN graph[Root].loaded_modules
    THEN graph[Root].loaded_modules[RequestName(m, k)]
    ELSE graph[m].loaded_modules[RequestName(m, k)]

\* the record the lookup returns
Remote(m, k) == graph[m].loaded_modules[RequestName(m, k)]

\* InsertKeys that assigns the keys to the result instead of inserting them
InsertKeys_Overwrite(result, m) == DOMAIN graph[m].exported_bindings

\* `for name in module_record.exported_bindings.keys() { result.insert(..) }`
InsertKeys(result, m) == result \cup DOMAIN graph[m].exported_bindings

\* a frame of collect_exported_recursive: its module record and the index
\* of its loop over star_export_entries
Frame(m) == [module_record |-> m, export_entry |-> 1]

Top == stack[Len(stack)]

Pop == SubSeq(stack, 1, Len(stack) - 1)

\* the top frame moves on to its next star export entry
Advance(s) ==
    [s EXCEPT ![Len(s)].export_entry = s[Len(s)].export_entry + 1]

(***************************************************************************)
(* Export::run_once                                                        *)
(***************************************************************************)
\* RunOnceNoStarExports without the early return, reporting the local
\* exports themselves
RunOnceNoStarExports_ReportsLocals ==
    /\ pc = "start"
    /\ graph[Root].star_export_entries = <<>>
    /\ pc' = "entries"
    /\ entry' = 1
    /\ duplicated_named_export' =
           [s \in {graph[Root].exported_bindings[n] :
                      n \in DOMAIN graph[Root].exported_bindings} |->
               CHOOSE n \in DOMAIN graph[Root].exported_bindings :
                   graph[Root].exported_bindings[n] = s]
    /\ UNCHANGED <<graph, all_export_names, stack, diagnostics, calls>>

\* `if module_record.star_export_entries.is_empty() { return; }`
RunOnceNoStarExports ==
    /\ pc = "start"
    /\ StarExports(Root) = <<>>
    /\ pc' = "done"
    /\ UNCHANGED <<graph, locals>>

RunOnceBegin ==
    /\ pc = "start"
    /\ StarExports(Root) # <<>>
    /\ pc' = "entries"
    /\ entry' = 1
    /\ duplicated_named_export' = EmptyMap
    /\ UNCHANGED <<graph, all_export_names, stack, diagnostics, calls>>

InLoop == pc = "entries" /\ entry <= Len(StarExports(Root))

\* module_request is None: continue
RunOnceNoRequest ==
    /\ InLoop
    /\ ~HasRequest(Root, entry)
    /\ entry' = entry + 1
    /\ UNCHANGED <<graph, pc, all_export_names, stack,
                   duplicated_named_export, diagnostics, calls>>

\* RunOnceNotLoaded with `break` for `continue`
RunOnceNotLoaded_Break ==
    /\ InLoop
    /\ HasRequest(Root, entry)
    /\ ~IsLoaded(Root, entry)
    /\ entry' = Len(StarExports(Root)) + 1
    /\ UNCHANGED <<graph, pc, all_export_names, stack,
                   duplicated_named_export, diagnostics, calls>>

\* loaded_modules has no such key: continue
RunOnceNotLoaded ==
    /\ InLoop
    /\ HasRequest(Root, entry)
    /\ ~IsLoaded(Root, entry)
    /\ entry' = entry + 1
    /\ UNCHANGED <<graph, pc, all_export_names, stack,
                   duplicated_named_export, diagnostics, calls>>

\* RunOnceCollect that passes module_record, not remote_module_record
RunOnceCollect_OwnRecord ==
    /\ InLoop
    /\ HasRequest(Root, entry)
    /\ IsLoaded(Root, entry)
    /\ all_export_names' = InsertKeys({}, Root)
    /\ stack' = <<Frame(Root)>>
    /\ calls' = [NoCalls EXCEPT ![Root] = 1]
    /\ pc' = "collect"
    /\ UNCHANGED <<graph, entry, duplicated_named_export, diagnostics>>

\* a fresh all_export_names and the call of collect_exported_recursive on
\* the remote record, which first inserts the remote's own export names
RunOnceCollect ==
    /\ InLoop
    /\ HasRequest(Root, entry)
    /\ IsLoaded(Root, entry)
    /\ LET remote == Remote(Root, entry)
       IN  /\ all_export_names' = InsertKeys({}, remote)
           /\ stack' = <<Frame(remote)>>
           /\ calls' = [NoCalls EXCEPT ![remote] = 1]
    /\ pc' = "collect"
    /\ UNCHANGED <<graph, entry, duplicated_named_export, diagnostics>>

\* `duplicated_named_export.entry(*span).or_insert_with(|| name.clone())`
\* for every collected name that named_export holds
OrInsertAll(map, names, named_export) ==
    LET found == names \cap DOMAIN named_export
        spans == {named_export[n] : n \in found}
    IN  [s \in DOMAIN map \cup spans |->
            IF s \in DOMAIN map
            THEN map[s]
            ELSE CHOOSE n \in found : named_export[n] = s]

\* RunOnceCompare that starts from an empty map at every entry
RunOnceCompare_Overwrite ==
    /\ pc = "compare"
    /\ duplicated_named_export' =
           OrInsertAll(EmptyMap, all_export_names, graph[Root].exported_bindings)
    /\ entry' = entry + 1
    /\ pc' = "entries"
    /\ UNCHANGED <<graph, all_export_names, stack, diagnostics, calls>>

\* RunOnceCompare with named_export.remove(name) for named_export.get(name)
RunOnceCompare_Removes ==
    /\ pc = "compare"
    /\ duplicated_named_export' =
           OrInsertAll(duplicated_named_export, all_export_names,
                       graph[Root].exported_bindings)
    /\ graph' = [graph EXCEPT ![Root].exported_bindings =
                    [n \in DOMAIN graph[Root].exported_bindings \ all_export_names
                        |-> graph[Root].exported_bindings[n]]]
    /\ entry' = entry + 1
    /\ pc' = "entries"
    /\ UNCHANGED <<all_export_names, stack, diagnostics, calls>>

\* the loop over all_export_names after the collector has returned
RunOnceCompare ==
    /\ pc = "compare"
    /\ duplicated_named_export' =
           OrInsertAll(duplicated_named_export, all_export_names,
                       graph[Root].exported_bindings)
    /\ entry' = entry + 1
    /\ pc' = "entries"
    /\ UNCHANGED <<graph, all_export_names, stack, diagnostics, calls>>

LoopDone == pc = "entries" /\ entry > Len(StarExports(Root))

\* `for (span, name) in duplicated_named_export { ctx.diagnostic(..) }`, in
\* the order the hash map yields
RunOnceDiagnostic ==
    /\ LoopDone
    /\ \E span \in DOMAIN duplicated_named_export :
          /\ diagnostics' =
                 Append(diagnostics, <<span, duplicated_named_export[span]>>)
          /\ duplicated_named_export' =
                 [s \in DOMAIN duplicated_named_export \ {span} |->
                     duplicated_named_export[s]]
    /\ UNCHANGED <<graph, pc, entry, all_export_names, stack, calls>>

RunOnceReturn ==
    /\ LoopDone
    /\ DOMAIN duplicated_named_export = {}
    /\ pc' = "done"
    /\ UNCHANGED <<graph, locals>>

(***************************************************************************)
(* collect_exported_recursive                                              *)
(***************************************************************************)
InCollect ==
    /\ pc = "collect"
    /\ stack # <<>>
    /\ Top.export_entry <= Len(StarExports(Top.module_record))

CollectNoRequest ==
    /\ InCollect
    /\ ~HasRequest(Top.module_record, Top.export_entry)
    /\ stack' = Advance(stack)
    /\ UNCHANGED <<graph, pc, entry, all_export_names,
                   duplicated_named_export, diagnostics, calls>>

CollectNotLoaded ==
    /\ InCollect
    /\ HasRequest(Top.module_record, Top.export_entry)
    /\ ~IsLoaded(Top.module_record, Top.export_entry)
    /\ stack' = Advance(stack)
    /\ UNCHANGED <<graph, pc, entry, all_export_names,
                   duplicated_named_export, diagnostics, calls>>

\* the record the top frame's current entry resolves to, in the
\* loaded_modules of the top frame's own record
Callee == Remote(Top.module_record, Top.export_entry)

\* CollectRecurse that does not descend: the entry adds nothing
CollectRecurse_Shallow ==
    /\ InCollect
    /\ HasRequest(Top.module_record, Top.export_entry)
    /\ IsLoaded(Top.module_record, Top.export_entry)
    /\ stack' = Advance(stack)
    /\ UNCHANGED <<graph, pc, entry, all_export_names,
                   duplicated_named_export, diagnostics, calls>>

\* the recursive call: the callee's export names are inserted on entry
CollectRecurse ==
    /\ InCollect
    /\ HasRequest(Top.module_record, Top.export_entry)
    /\ IsLoaded(Top.module_record, Top.export_entry)
    /\ Len(stack) < StackLimit
    /\ all_export_names' = InsertKeys(all_export_names, Callee)
    /\ stack' = Append(stack, Frame(Callee))
    /\ calls' = [calls EXCEPT ![Callee] = calls[Callee] + 1]
    /\ UNCHANGED <<graph, pc, entry, duplicated_named_export, diagnostics>>

\* the recursion has no cycle guard: it goes on until the thread's stack is
\* exhausted and the process aborts
CollectStackOverflow ==
    /\ InCollect
    /\ HasRequest(Top.module_record, Top.export_entry)
    /\ IsLoaded(Top.module_record, Top.export_entry)
    /\ Len(stack) >= StackLimit
    /\ pc' = "overflow"
    /\ UNCHANGED <<graph, locals>>

\* the loop of the top frame is over: return to the caller
CollectReturn ==
    /\ pc = "collect"
    /\ stack # <<>>
    /\ Top.export_entry > Len(StarExports(Top.module_record))
    /\ IF Len(stack) = 1
       THEN /\ stack' = <<>>
            /\ pc' = "compare"
       ELSE /\ stack' = Advance(Pop)
            /\ pc' = pc
    /\ UNCHANGED <<graph, entry, all_export_names,
                   duplicated_named_export, diagnostics, calls>>

Next ==
    \/ RunOnceNoStarExports
    \/ RunOnceBegin
    \/ RunOnceNoRequest
    \/ RunOnceNotLoaded
    \/ RunOnceCollect
    \/ RunOnceCompare
    \/ RunOnceDiagnostic
    \/ RunOnceReturn
    \/ CollectNoRequest
    \/ CollectNotLoaded
    \/ CollectRecurse
    \/ CollectStackOverflow
    \/ CollectReturn

Spec == Init /\ [][Next]_vars

\* the same graphs with one more star export entry
InitWide ==
    /\ InitGraph(MaxStarExports + 1)
    /\ InitLocals

SpecWide == InitWide /\ [][Next]_vars

(***************************************************************************)
(* The two functions as functions of a graph g: what one whole call yields.*)
(***************************************************************************)
\* collect_exported_recursive(result, &g[m]) as frame number `depth`: the
\* result set after the call, and whether the recursion exhausted the stack
RECURSIVE collect_exported_recursive(_, _, _, _)
collect_exported_recursive(g, result, m, depth) ==
    LET entries == g[m].star_export_entries
        RECURSIVE for(_, _)
        for(k, acc) ==
            IF acc.overflow \/ k > Len(entries) THEN acc
            ELSE IF entries[k].module_request = <<>> THEN for(k + 1, acc)
            ELSE IF entries[k].module_request[1] \notin DOMAIN g[m].loaded_modules
                 THEN for(k + 1, acc)
            ELSE IF depth >= StackLimit
                 THEN [acc EXCEPT !.overflow = TRUE]
            ELSE for(k + 1,
                     collect_exported_recursive(
                         g, acc.result,
                         g[m].loaded_modules[entries[k].module_request[1]],
                         depth + 1))
    IN  for(1, [result   |-> result \cup DOMAIN g[m].exported_bindings,
                overflow |-> FALSE])

\* run_once on module m of g: the set of (span, name) pairs handed to
\* ctx.diagnostic, none when the process aborted in the collector
run_once(g, m) ==
    LET entries      == g[m].star_export_entries
        named_export == g[m].exported_bindings
        RECURSIVE for(_, _)
        for(k, acc) ==
            IF acc.overflow \/ k > Len(entries) THEN acc
            ELSE IF entries[k].module_request = <<>> THEN for(k + 1, acc)
            ELSE IF entries[k].module_request[1] \notin DOMAIN g[m].loaded_modules
                 THEN for(k + 1, acc)
            ELSE LET all_names ==
                         collect_exported_recursive(
                             g, {},
                             g[m].loaded_modules[entries[k].module_request[1]],
                             1)
                 IN  for(k + 1,
                         [map      |-> OrInsertAll(acc.map, all_names.result,
                                                   named_export),
                          overflow |-> all_names.overflow])
        end == for(1, [map |-> EmptyMap, overflow |-> FALSE])
    IN  [diagnostics |-> IF end.overflow
                         THEN {}
                         ELSE {<<span, end.map[span]>> : span \in DOMAIN end.map},
         overflow    |-> end.overflow]

(***************************************************************************)
(* The star-export graph as the specification describes it.                *)
(***************************************************************************)
\* the star export entries of g[m] that name a loaded module
Resolved(g, m) ==
    {k \in 1..Len(g[m].star_export_entries) :
        /\ g[m].star_export_entries[k].module_request # <<>>
        /\ g[m].star_export_entries[k].module_request[1]
               \in DOMAIN g[m].loaded_modules}

\* the module that entry k of g[m] names, looked up in g[m]'s own map
ResolvedModule(g, m, k) ==
    g[m].loaded_modules[g[m].star_export_entries[k].module_request[1]]

\* the modules g[m] re-exports from directly
StarEdges(g, m) == {ResolvedModule(g, m, k) : k \in Resolved(g, m)}

\* the modules of `from` and all they re-export from, over any number of hops
RECURSIVE StarClosure(_, _)
StarClosure(g, from) ==
    LET more == from \cup UNION {StarEdges(g, m) : m \in from}
    IN  IF more = from THEN from ELSE StarClosure(g, more)

LocalNames(g, m) == DOMAIN g[m].exported_bindings

NamesOf(g, mods) == UNION {LocalNames(g, m) : m \in mods}

\* the names g[m] re-exports through one or more star export entries
ReExportedNames(g, m) == NamesOf(g, StarClosure(g, StarEdges(g, m)))

\* no module re-exports from itself, over any number of hops
Acyclic(g) == \A m \in Modules : m \notin StarClosure(g, StarEdges(g, m))

DiagnosticSet == {diagnostics[k] : k \in 1..Len(diagnostics)}

\* run_once has ended: it returned, or the process aborted
Ended == pc \in {"done", "overflow"}

\* what the run has yielded when it has ended
Outcome == [diagnostics |-> DiagnosticSet, overflow |-> pc = "overflow"]

Occurrences(d) == Cardinality({k \in 1..Len(diagnostics) : diagnostics[k] = d})

\* the diagnostic for the local export `name` of the linted module
DiagnosticFor(name) == <<graph[Root].exported_bindings[name], name>>

\* g without the star export entries that have no request or whose request
\* is not loaded
Strip(g) ==
    [m \in Modules |->
        [g[m] EXCEPT !.star_export_entries =
            LET keep(e) == /\ e.module_request # <<>>
                           /\ e.module_request[1] \in DOMAIN g[m].loaded_modules
            IN  SelectSeq(g[m].star_export_entries, keep)]]

\* the orders a list can be put in
Orders(s) ==
    {[k \in 1..Len(s) |-> s[p[k]]] :
        p \in {f \in [1..Len(s) -> 1..Len(s)] :
                  \A a, b \in 1..Len(s) : a # b => f[a] # f[b]}}

\* the graphs that differ from g only in the order of the star export
\* entries of modules 1..n
RECURSIVE Reordered(_, _)
Reordered(g, n) ==
    IF n = 0
    THEN {g}
    ELSE {[h EXCEPT ![n].star_export_entries = s] :
             h \in Reordered(g, n - 1), s \in Orders(g[n].star_export_entries)}

(***************************************************************************)
(* Properties.                                                             *)
(***************************************************************************)
\* The stack limit of the model is met on a graph with a cycle only, where
\* the recursion of the code does not end either.
OverflowOnlyOnCycle == pc = "overflow" => ~Acyclic(graph)

\* C1: when run_once has ended, every local export name of the linted module
\* that some module reached through one or more resolvable star export
\* entries also exports has exactly one diagnostic, at the span of the local
\* export, however many entries or paths reach it.
C1_OneDiagnosticPerDuplicate ==
    Ended =>
        \A name \in LocalNames(graph, Root) \cap ReExportedNames(graph, Root) :
            Occurrences(DiagnosticFor(name)) = 1

\* the same for the runs that return: the graphs on which the collector
\* meets no cycle
C1_OneDiagnosticWhenReturned ==
    pc = "done" =>
        \A name \in LocalNames(graph, Root) \cap ReExportedNames(graph, Root) :
            Occurrences(DiagnosticFor(name)) = 1

\* a local name that no directly re-exported module exports, only one two
\* hops away, has been reported once
C1_Witness ==
    /\ pc = "done"
    /\ \E name \in LocalNames(graph, Root) :
          /\ name \notin NamesOf(graph, StarEdges(graph, Root))
          /\ name \in ReExportedNames(graph, Root)
          /\ Occurrences(DiagnosticFor(name)) = 1

\* C2: every diagnostic names a local export of the linted module that is
\* also re-exported through its star export entries; a name that only two
\* re-exported modules share is not reported.
C2_OnlyLocalReExportedNames ==
    \A k \in 1..Len(diagnostics) :
        /\ diagnostics[k][2] \in LocalNames(graph, Root)
        /\ diagnostics[k][2] \in ReExportedNames(graph, Root)

\* two different re-exported modules export a name the linted module does
\* not export; it is not reported, while another name is
C2_Witness ==
    /\ pc = "done"
    /\ diagnostics # <<>>
    /\ \E n, o \in StarEdges(graph, Root) : \E name \in Names :
          /\ n # o
          /\ name \in LocalNames(graph, n) \cap LocalNames(graph, o)
          /\ name \notin LocalNames(graph, Root)
          /\ \A k \in 1..Len(diagnostics) : diagnostics[k][2] # name

\* the linted module and a module it re-exports from re-export each other
TwoCycle ==
    \E m \in StarEdges(graph, Root) : m # Root /\ Root \in StarEdges(graph, m)

\* C3: on a graph where the linted module M1 re-exports M2 and M2 re-exports
\* M1, the traversal returns: the recursion never exhausts the stack.
C3_CycleTerminates == TwoCycle => pc # "overflow"

\* C4: a module without star export entries gets no diagnostic, whatever it
\* exports itself.
C4_NoStarExportsNoDiagnostic ==
    graph[Root].star_export_entries = <<>> =>
        /\ diagnostics = <<>>
        /\ DOMAIN duplicated_named_export = {}
        /\ pc \in {"start", "done"}

\* run_once has returned for a module with local exports and no star export
C4_Witness ==
    /\ pc = "done"
    /\ graph[Root].star_export_entries = <<>>
    /\ LocalNames(graph, Root) # {}

\* C5: what the run yields is what run_once yields on the graph from which
\* every star export entry without a request or with a request that is not
\* loaded has been removed: such an entry is skipped, the entries around it
\* are processed.
C5_UnresolvedEntriesSkipped ==
    Ended => Outcome = run_once(Strip(graph), Root)

\* the linted module has an unresolved entry before a resolved one, and a
\* duplicate has been reported
C5_Witness ==
    /\ pc = "done"
    /\ diagnostics # <<>>
    /\ \E k \in 1..Len(graph[Root].star_export_entries) :
          /\ k \notin Resolved(graph, Root)
          /\ \E j \in Resolved(graph, Root) : j > k

\* C6: what the run yields, the set of diagnostics, is the same for every
\* order of the star export entries of the linted module and of the modules
\* reached.
C6_OrderIndependent ==
    Ended => \A g \in Reordered(graph, NumModules) : run_once(g, Root) = Outcome

\* two entries of the linted module name different modules and each of them
\* yields a diagnostic of its own
C6_Witness ==
    /\ pc = "done"
    /\ Len(diagnostics) = 2
    /\ Cardinality(StarEdges(graph, Root)) = 2
    /\ \A m \in StarEdges(graph, Root) :
          Cardinality(LocalNames(graph, m) \cap LocalNames(graph, Root)) = 1

\* C7: no step of run_once or of the collector changes a module record.
C7_GraphUnchanged == [][graph' = graph]_vars

\* run_once has walked two levels of the graph and reported a duplicate
C7_Witness ==
    /\ pc = "done"
    /\ diagnostics # <<>>
    /\ \E m \in StarEdges(graph, Root) : StarEdges(graph, m) # {}

\* C8: within one traversal the collector is called at most once per module,
\* also when several paths lead to it (stated for graphs without a cycle,
\* where the traversal returns).
C8_VisitedAtMostOnce ==
    Acyclic(graph) => \A m \in Modules : calls[m] <= 1

\* the module the running traversal started from
TraversalRoot == ResolvedModule(graph, Root, entry)

\* C9: when the traversal started on module T returns, the result set holds
\* exactly the export names of T and of the modules reached from T through
\* resolvable star export entries; while it runs, the set holds the names of
\* every module called so far and no name from elsewhere.
C9_CollectsExactlyReachableNames ==
    /\ pc = "compare" =>
           all_export_names = NamesOf(graph, StarClosure(graph, {TraversalRoot}))
    /\ pc = "collect" =>
           /\ NamesOf(graph, {m \in Modules : calls[m] > 0}) \subseteq all_export_names
           /\ all_export_names
                  \subseteq NamesOf(graph, StarClosure(graph, {TraversalRoot}))

\* the traversal has returned with a name of T itself and with a name that
\* only a module below T exports
C9_Witness ==
    /\ pc = "compare"
    /\ LocalNames(graph, TraversalRoot) # {}
    /\ all_export_names \ LocalNames(graph, TraversalRoot) # {}

\* C10: every frame of the collector runs on the module that the entry of
\* its caller names in the caller's own loaded_modules, and the first frame
\* on the module the linted module's entry names in the linted module's.
C10_ResolvedInContainingModule ==
    pc = "collect" =>
        /\ entry \in Resolved(graph, Root)
        /\ stack[1].module_record = ResolvedModule(graph, Root, entry)
        /\ \A d \in 2..Len(stack) :
              /\ stack[d - 1].export_entry
                     \in Resolved(graph, stack[d - 1].module_record)
              /\ stack[d].module_record =
                     ResolvedModule(graph, stack[d - 1].module_record,
                                    stack[d - 1].export_entry)

\* the linted module and the module it re-exports from request the same
\* specifier, which names different modules in their two maps, and the
\* collector has followed the second
C10_Witness ==
    /\ pc = "collect"
    /\ Len(stack) = 2
    /\ graph[Root].star_export_entries[entry].module_request =
           graph[stack[1].module_record]
               .star_export_entries[stack[1].export_entry].module_request
    /\ stack[2].module_record # stack[1].module_record
    /\ stack[2].module_record # Root

=============================================================================
